---- MODULE Spec2Model ----
(***************************************************************************)
(* Ingestion pipeline of the Flipkart scrapers: FlipkartScraper            *)
(* (backend/modules/flipkart/main.py, rendered-page strategy) and          *)
(* FlipkartApiScraper (backend/modules/flipkart/api.py, API strategy),     *)
(* running against the products table (backend/alchemy/models.py).         *)
(***************************************************************************)
EXTENDS Integers, Sequences, FiniteSets

\* ---------------------------------------------------------------- constants
\* FlipkartScraper.MAX_PAGES
MAX_PAGES == 10

\* @retry(Exception, tries=3, delay=2)
Tries == 3

\* Bound of the model: slots in one fetched page.
MaxSlots == 2

\* Bound of the model: value-lists in one rendered page's data mapping.
MaxKeys == 2

\* The scraper instances ("a", "b"): pipeline instances sharing one store.
Inst == {"a", "b"}

\* Product identifiers the site serves.
PIDs == {"p1", "p2"}

\* ------------------------------------------------------------------- inputs
\* A raw product payload with its identifier.
WellFormed(p) == [id |-> p, title |-> "T", baseUrl |-> "/p"]

\* A raw product payload lacking the identifier field.
Malformed == [title |-> "T", baseUrl |-> "/p"]

Payloads == {WellFormed(p) : p \in PIDs} \cup {Malformed}

\* Mutant of Qualifies: the slot type is not looked at.
QualifiesTypeOnly(slot) == slot.wtype = "PRODUCT_SUMMARY"

\* slot['slotType'] == 'WIDGET' and slot['widget']['type'] == 'PRODUCT_SUMMARY'
Qualifies(slot) == slot.slotType = "WIDGET" /\ slot.wtype = "PRODUCT_SUMMARY"

\* Slots of a page: the qualifying ones carry any payload, the others one payload.
Slots ==
  {s \in [slotType : {"WIDGET", "AD"}, wtype : {"PRODUCT_SUMMARY", "BANNER"},
          value : Payloads] : Qualifies(s) \/ s.value = WellFormed("p1")}

SeqsUpTo(S, n) == UNION {[1..k -> S] : k \in 0..n}

RECURSIVE Flatten(_)
Flatten(ll) == IF ll = <<>> THEN <<>> ELSE Head(ll) \o Flatten(Tail(ll))

\* The ways to cut the slot list f into k consecutive value-lists.
Splits(f, k) ==
  {[j \in 1..k |-> SubSeq(f, c[j - 1] + 1, c[j])] :
     c \in {c \in [0..k -> 0..Len(f)] :
              /\ c[0] = 0 /\ c[k] = Len(f)
              /\ \A j \in 1..k : c[j - 1] <= c[j]}}

\* The data mapping of a rendered page: its value-lists, in insertion order,
\* one to MaxKeys of them, holding at most MaxSlots slots together.
HtmlData ==
  UNION {Splits(f, k) : f \in SeqsUpTo(Slots, MaxSlots), k \in 1..MaxKeys}

\* A rendered page: the is_script element may be absent, and its text may not be JSON.
HtmlBodies ==
  {[script |-> FALSE, valid |-> FALSE, data |-> <<>>],
   [script |-> TRUE, valid |-> FALSE, data |-> <<>>]}
  \cup {[script |-> TRUE, valid |-> TRUE, data |-> d] : d \in HtmlData}

\* An API response: RESPONSE.slots.
ApiBodies == {[slots |-> s] : s \in SeqsUpTo(Slots, MaxSlots)}

Bodies(strat) == IF strat = "html" THEN HtmlBodies ELSE ApiBodies

\* What one request attempt meets: a successful response, a non-success
\* status, or an exception of the transport.
Outcomes == {"ok", "status", "transport"}

\* ------------------------------------------------------------------- state
VARIABLES
  strategy,           \* "html" (FlipkartScraper) or "api" (FlipkartApiScraper)
  ENABLE_PAGINATION,  \* the class attribute of the instance's class
  PAGE,               \* self.PAGE
  pc,                 \* where the instance's run() stands
  attempt,            \* number of the current attempt of get_response
  outcome,            \* what the last attempt met
  response,           \* <<body>> while start() holds a response, else <<>>
  products,           \* PRODUCTS of the page in progress
  idx,                \* position of the for loop over products
  details,            \* <<product_details>> while save_to_db runs, else <<>>
  found,              \* result of mysql.exists in save_to_db
  store,              \* rows of the products table, in insertion order
  err,                \* the exception that left run(), "none" if none
  fetched,            \* page numbers of the get_response calls of this run
  sent,               \* page number in the request of the last attempt, 0 if none
  creds               \* calls of get_cookies and of get_headers made so far

vars == <<strategy, ENABLE_PAGINATION, PAGE, pc, attempt, outcome, response,
          products, idx, details, found, store, err, fetched, sent, creds>>

config == <<strategy, ENABLE_PAGINATION>>

\* ------------------------------------------------------------------- store
\* Number of rows of the table with this product_id.
Count(st, p) == Cardinality({k \in 1..Len(st) : st[k].product_id = p})

\* Mutant of UniqueViolation: the column without its unique constraint.
UniqueViolationOff(st, row) == FALSE

\* product_id = Column(String(128), unique=True)
UniqueViolation(st, row) == Count(st, row.product_id) >= 1

\* MysqlConnection.exists(product_id)
exists(st, p) == \E k \in 1..Len(st) : st[k].product_id = p

\* MysqlConnection.insert(product_details): the row is appended.
insert(st, row) == Append(st, row)

\* BASE_URL of the instance's class: FlipkartScraper's site root, or the API
\* endpoint FlipkartApiScraper overrides it with.
BASE_URL(strat) ==
  IF strat = "html" THEN [host |-> "www.flipkart.com", path |-> "/"]
  ELSE [host |-> "1.rome.api.flipkart.com", path |-> "/api/4/page/fetch"]

\* urljoin(base, path) with a rooted path: the host of base, the path given.
urljoin(base, path) == [host |-> base.host, path |-> path]

\* Rows that runs of either scraper class leave in the table.
Rows ==
  {[product_id |-> p, title |-> "T", url |-> urljoin(BASE_URL(st), "/p"),
    source |-> "flipkart"] : p \in PIDs, st \in {"html", "api"}}

\* Tables without a duplicate product_id.
ValidStores ==
  {st \in SeqsUpTo(Rows, Cardinality(PIDs)) : \A p \in PIDs : Count(st, p) <= 1}

\* Mutant of skip: a repeat sighting refreshes the stored row.
skipRefresh(st, row) ==
  [k \in 1..Len(st) |-> IF st[k].product_id = row.product_id THEN row ELSE st[k]]

\* The else branch of save_to_db: two log lines, no call of the store.
skip(st, row) == st

\* ------------------------------------------------------------ pure functions
\* get_json_response: {} when the script is absent or its text is not JSON.
get_json_response(body) ==
  IF body.script /\ body.valid THEN [pageDataV4 |-> body.data] ELSE <<>>

RECURSIVE SelectSlots(_)
SelectSlots(slots) ==
  IF slots = <<>> THEN <<>>
  ELSE (IF Qualifies(Head(slots)) THEN <<Head(slots).value>> ELSE <<>>)
       \o SelectSlots(Tail(slots))

RECURSIVE get_products_html(_)
\* FlipkartScraper.get_products on the value-lists of the data mapping.
get_products_html(data) ==
  IF data = <<>> THEN <<>>
  ELSE SelectSlots(Head(data)) \o get_products_html(Tail(data))

\* FlipkartApiScraper.get_products on RESPONSE.slots.
get_products_api(body) == SelectSlots(body.slots)

\* product['id'] raises KeyError when the payload has no identifier.
HasId(product) == "id" \in DOMAIN product

\* get_product_details
get_product_details(strat, product) ==
  [product_id |-> product.id, title |-> product.title,
   url |-> urljoin(BASE_URL(strat), product.baseUrl), source |-> "flipkart"]

\* if not response.ok: raise; an exception of requests propagates as it is.
AttemptFails(o) == o # "ok"

\* Mutant of Exhausted: one attempt too many.
ExhaustedLate(n) == n > Tries

\* retry(tries=3): the attempt that fails with no try left re-raises.
Exhausted(n) == n >= Tries

\* Mutant of LoopTest: the loop admits one page beyond MAX_PAGES.
LoopTestLoose(page) == page <= MAX_PAGES + 1

\* Mutant of LoopTest: the last page is left out.
LoopTestStrict(page) == page < MAX_PAGES

\* while self.PAGE <= self.MAX_PAGES
LoopTest(page) == page <= MAX_PAGES

\* Mutant of NextPage: the counter advances in single-page mode too.
NextPageAlways(paginate, page) == page + 1

\* self.PAGE += 1 stands in the paginated loop only.
NextPage(paginate, page) == IF paginate THEN page + 1 ELSE page

\* Mutant of ShouldInsert: no record is ever inserted.
ShouldInsertNever(seen) == FALSE

\* Mutant of ShouldInsert: the result of exists is ignored.
ShouldInsertAlways(seen) == TRUE

\* if not self.mysql.exists(...): insert, else skip
ShouldInsert(seen) == ~seen

\* Mutant of PageParam: the request asks for the page after self.PAGE.
PageParamNext(page) == page + 1

\* 'page': self.PAGE (rendered page), 'pageNumber': self.PAGE (API).
PageParam(page) == page

\* No call of get_cookies or get_headers was made.
NoCalls == [cookies |-> 0, headers |-> 0]

\* __init__: FlipkartApiScraper calls get_cookies and get_headers once each and
\* stores the results; FlipkartScraper has no credentials.
Constructed(strat) ==
  IF strat = "api" THEN [cookies |-> 1, headers |-> 1] ELSE NoCalls

\* Mutant of RequestCredentials: each API request acquires fresh credentials.
RequestCredentialsFresh(strat, c) ==
  IF strat = "api" THEN [cookies |-> c.cookies + 1, headers |-> c.headers + 1] ELSE c

\* requests.post(..., cookies=self.cookies, headers=self.headers): the stored
\* values are sent; requests.get of the rendered page sends none.
RequestCredentials(strat, c) == c

\* Mutant of ForExhausted: the loop is left before its last product.
ForExhaustedEarly(k, ps) == k >= Len(ps)

\* for product in products: the loop ends after the last product.
ForExhausted(k, ps) == k > Len(ps)

\* Mutant of Propagate: a fetch failure is swallowed and the loop goes on.
PropagateSwallowFetch(cause) == IF cause = "fetch" THEN "for" ELSE "aborted"

\* No try/except in start() or run(): an exception ends the run.
Propagate(cause) == "aborted"

\* -------------------------------------------------------------------- init
\* A constructed instance: PAGE = 1, nothing in progress.
Fresh ==
  /\ PAGE = [i \in Inst |-> 1]
  /\ attempt = [i \in Inst |-> 0]
  /\ outcome = [i \in Inst |-> "ok"]
  /\ response = [i \in Inst |-> <<>>]
  /\ products = [i \in Inst |-> <<>>]
  /\ idx = [i \in Inst |-> 0]
  /\ details = [i \in Inst |-> <<>>]
  /\ found = [i \in Inst |-> FALSE]
  /\ err = [i \in Inst |-> "none"]
  /\ fetched = [i \in Inst |-> <<>>]
  /\ sent = [i \in Inst |-> 0]

\* One scraper of either class, pagination on or off, on a table that may
\* hold rows of earlier runs.
Init ==
  /\ Fresh
  /\ \E s \in {"html", "api"} : strategy = [i \in Inst |-> IF i = "a" THEN s ELSE "api"]
  /\ \E e \in BOOLEAN : ENABLE_PAGINATION = [i \in Inst |-> IF i = "a" THEN e ELSE FALSE]
  /\ pc = [i \in Inst |-> IF i = "a" THEN "idle" ELSE "none"]
  /\ creds = [i \in Inst |-> IF i = "a" THEN Constructed(strategy[i]) ELSE NoCalls]
  /\ store \in ValidStores

\* One instance of either class constructed, on an empty table.
InitEmpty == Init /\ store = <<>>

\* Two FlipkartApiScraper instances (ENABLE_PAGINATION = False) on one empty table.
InitConc ==
  /\ Fresh
  /\ strategy = [i \in Inst |-> "api"]
  /\ ENABLE_PAGINATION = [i \in Inst |-> FALSE]
  /\ pc = [i \in Inst |-> "idle"]
  /\ creds = [i \in Inst |-> Constructed(strategy[i])]
  /\ store = <<>>

\* ----------------------------------------------------------------- actions
\* run() is called: the loop test of the paginated branch, or the single
\* call of start().
RunBegin(i) ==
  /\ pc[i] = "idle"
  /\ pc' = [pc EXCEPT ![i] =
              IF ENABLE_PAGINATION[i] /\ ~LoopTest(PAGE[i]) THEN "done" ELSE "fetch"]
  /\ attempt' = [attempt EXCEPT ![i] = 0]
  /\ fetched' = [fetched EXCEPT ![i] = <<>>]
  /\ err' = [err EXCEPT ![i] = "none"]
  /\ UNCHANGED <<config, creds, sent, PAGE, outcome, response, products, idx, details, found, store>>

\* One attempt of get_response, with the page number self.PAGE.
GetResponse(i) ==
  /\ pc[i] = "fetch"
  /\ \E o \in Outcomes :
       LET n == attempt[i] + 1 IN
       /\ outcome' = [outcome EXCEPT ![i] = o]
       /\ attempt' = [attempt EXCEPT ![i] = n]
       /\ fetched' = [fetched EXCEPT ![i] =
                        IF attempt[i] = 0 THEN Append(@, PAGE[i]) ELSE @]
       /\ IF AttemptFails(o)
          THEN /\ response' = response
               /\ IF Exhausted(n)
                  THEN /\ pc' = [pc EXCEPT ![i] = Propagate("fetch")]
                       /\ err' = [err EXCEPT ![i] = "fetch"]
                  ELSE UNCHANGED <<pc, err>>
          ELSE /\ \E body \in Bodies(strategy[i]) :
                    response' = [response EXCEPT ![i] = <<body>>]
               /\ pc' = [pc EXCEPT ![i] = "extract"]
               /\ err' = err
  /\ sent' = [sent EXCEPT ![i] = PageParam(PAGE[i])]
  /\ creds' = [creds EXCEPT ![i] = RequestCredentials(strategy[i], @)]
  /\ UNCHANGED <<config, PAGE, products, idx, details, found, store>>

\* start() after get_response returned: get_json_response and get_products
\* (rendered page), or get_products (API).
Extract(i) ==
  /\ pc[i] = "extract"
  /\ LET body == response[i][1]
         json == get_json_response(body)
     IN IF strategy[i] = "html" /\ "pageDataV4" \notin DOMAIN json
        THEN \* json_response['pageDataV4'] raises KeyError on {}
             /\ pc' = [pc EXCEPT ![i] = Propagate("extract")]
             /\ err' = [err EXCEPT ![i] = "extract"]
             /\ UNCHANGED <<response, products, idx, attempt>>
        ELSE /\ products' = [products EXCEPT ![i] =
                               IF strategy[i] = "html"
                               THEN get_products_html(json.pageDataV4)
                               ELSE get_products_api(body)]
             /\ idx' = [idx EXCEPT ![i] = 1]
             /\ response' = [response EXCEPT ![i] = <<>>]
             /\ attempt' = [attempt EXCEPT ![i] = 0]
             /\ pc' = [pc EXCEPT ![i] = "for"]
             /\ err' = err
  /\ UNCHANGED <<config, creds, sent, PAGE, outcome, details, found, store, fetched>>

\* The for loop of start() takes the next product: get_product_details.
ForNext(i) ==
  /\ pc[i] = "for"
  /\ ~ForExhausted(idx[i], products[i])
  /\ LET product == products[i][idx[i]]
     IN IF HasId(product)
        THEN /\ details' = [details EXCEPT ![i] = <<get_product_details(strategy[i], product)>>]
             /\ pc' = [pc EXCEPT ![i] = "exists"]
             /\ err' = err
        ELSE /\ pc' = [pc EXCEPT ![i] = Propagate("malformed")]
             /\ err' = [err EXCEPT ![i] = "malformed"]
             /\ details' = details
  /\ UNCHANGED <<config, creds, sent, PAGE, attempt, outcome, response, products, idx, found,
                 store, fetched>>

\* save_to_db: self.mysql.exists(product_details['product_id']) and the branch.
Exists(i) ==
  /\ pc[i] = "exists"
  /\ LET seen == exists(store, details[i][1].product_id)
     IN /\ found' = [found EXCEPT ![i] = seen]
        /\ pc' = [pc EXCEPT ![i] = IF ShouldInsert(seen) THEN "insert" ELSE "skip"]
  /\ UNCHANGED <<config, creds, sent, PAGE, attempt, outcome, response, products, idx, details,
                 store, err, fetched>>

\* save_to_db: self.mysql.insert(product_details); the unique column rejects a
\* second row of the product_id, and the error leaves save_to_db.
Insert(i) ==
  /\ pc[i] = "insert"
  /\ LET row == details[i][1]
     IN IF UniqueViolation(store, row)
        THEN /\ pc' = [pc EXCEPT ![i] = Propagate("persist")]
             /\ err' = [err EXCEPT ![i] = "persist"]
             /\ UNCHANGED <<store, idx, details, found>>
        ELSE /\ store' = insert(store, row)
             /\ idx' = [idx EXCEPT ![i] = @ + 1]
             /\ details' = [details EXCEPT ![i] = <<>>]
             /\ found' = [found EXCEPT ![i] = FALSE]
             /\ pc' = [pc EXCEPT ![i] = "for"]
             /\ err' = err
  /\ UNCHANGED <<config, creds, sent, PAGE, attempt, outcome, response, products, fetched>>

\* save_to_db: the "already exists ... Skipping" branch.
Skip(i) ==
  /\ pc[i] = "skip"
  /\ idx' = [idx EXCEPT ![i] = @ + 1]
  /\ details' = [details EXCEPT ![i] = <<>>]
  /\ found' = [found EXCEPT ![i] = FALSE]
  /\ store' = skip(store, details[i][1])
  /\ pc' = [pc EXCEPT ![i] = "for"]
  /\ UNCHANGED <<config, creds, sent, PAGE, attempt, outcome, response, products, err, fetched>>

\* start() returns: in the paginated loop the sleep, self.PAGE += 1 and the
\* loop test; otherwise the end of run().
StartReturns(i) ==
  /\ pc[i] = "for"
  /\ ForExhausted(idx[i], products[i])
  /\ products' = [products EXCEPT ![i] = <<>>]
  /\ idx' = [idx EXCEPT ![i] = 0]
  /\ PAGE' = [PAGE EXCEPT ![i] = NextPage(ENABLE_PAGINATION[i], @)]
  /\ pc' = [pc EXCEPT ![i] =
              IF ENABLE_PAGINATION[i] /\ LoopTest(PAGE'[i]) THEN "fetch" ELSE "done"]
  /\ UNCHANGED <<config, creds, sent, attempt, outcome, response, details, found, store, err,
                 fetched>>

\* run() is called again on an instance whose run has ended: the frame of the
\* earlier call is gone, self.PAGE is what the earlier run left.
RunAgain(i) ==
  /\ pc[i] \in {"done", "aborted"}
  /\ pc' = [pc EXCEPT ![i] =
              IF ENABLE_PAGINATION[i] /\ ~LoopTest(PAGE[i]) THEN "done" ELSE "fetch"]
  /\ attempt' = [attempt EXCEPT ![i] = 0]
  /\ outcome' = [outcome EXCEPT ![i] = "ok"]
  /\ response' = [response EXCEPT ![i] = <<>>]
  /\ products' = [products EXCEPT ![i] = <<>>]
  /\ idx' = [idx EXCEPT ![i] = 0]
  /\ details' = [details EXCEPT ![i] = <<>>]
  /\ found' = [found EXCEPT ![i] = FALSE]
  /\ err' = [err EXCEPT ![i] = "none"]
  /\ fetched' = [fetched EXCEPT ![i] = <<>>]
  /\ sent' = [sent EXCEPT ![i] = 0]
  /\ UNCHANGED <<config, creds, PAGE, store>>

Next ==
  \E i \in Inst :
    \/ RunBegin(i)
    \/ GetResponse(i)
    \/ Extract(i)
    \/ ForNext(i)
    \/ Exists(i)
    \/ Insert(i)
    \/ Skip(i)
    \/ StartReturns(i)

\* One scraper instance runs.
Spec == Init /\ [][Next]_vars

\* Two scraper instances run concurrently against the same table.
SpecConc == InitConc /\ [][Next]_vars

\* The first run of one instance, on an empty table.
SpecEmpty == InitEmpty /\ [][Next]_vars

NextRerun == Next \/ \E i \in Inst : RunAgain(i)

\* One instance on an empty table, run() called on it any number of times.
SpecRerun == InitEmpty /\ [][NextRerun]_vars

\* The interpreter keeps executing the script: a step that can be taken is
\* taken (no handler waits on anything but a blocking call that returns).
FairSpec == SpecEmpty /\ WF_vars(Next)

\* ------------------------------------------------------------------ claims
\* The pages 1, 2, ..., n in order.
UpTo(n) == [k \in 1..n |-> k]

\* The instance's run has ended, by return or by exception.
Ended(i) == pc[i] \in {"done", "aborted"}

\* Processing of the page in progress is over: start() returned or raised.
PageOver(i) ==
  \/ pc[i] = "for" /\ idx[i] > Len(products[i])
  \/ pc[i] = "aborted" /\ err[i] \in {"malformed", "persist"}

\* C1: Idempotent persistence. When save_to_db is called again for a
\* product_id it was already called for on the page, the table holds exactly
\* one row of that product_id after each call, and the later call never
\* reaches the insert: it takes the "already exists" branch.
C1_Idempotent ==
  \A i \in Inst :
    /\ pc[i] \in {"for", "exists", "insert", "skip"} =>
         \A j \in 1..(idx[i] - 1) : Count(store, products[i][j].id) = 1
    /\ pc[i] = "insert" =>
         \A j \in 1..(idx[i] - 1) : products[i][j].id # details[i][1].product_id
    /\ (pc[i] \in {"insert", "skip"} /\ \E j \in 1..(idx[i] - 1) :
          products[i][j].id = details[i][1].product_id) =>
         pc[i] = "skip" /\ found[i]

\* C1 witness: the second of two calls with the same record stands in the
\* "already exists" branch, and the table holds the one row the first call made.
C1_Witness ==
  \E i \in Inst :
    /\ pc[i] = "skip" /\ idx[i] = 2
    /\ products[i][1] = products[i][2]
    /\ Len(store) = 1 /\ Count(store, products[i][1].id) = 1

\* C2: Pagination bound. A paginated run of a fresh instance in which every
\* fetch succeeded has called start exactly MAX_PAGES times when it ends, with
\* the page numbers 1, 2, ..., MAX_PAGES in order.
C2_PaginationBound ==
  \A i \in Inst :
    (ENABLE_PAGINATION[i] /\ Ended(i) /\ err[i] # "fetch") =>
      fetched[i] = UpTo(MAX_PAGES)

\* C3: Retry bound. A get_response call makes at most Tries attempts; it goes
\* on only after a failed attempt, returns at the first successful one, and
\* raises exactly when the last of Tries attempts failed; a non-success status
\* and a transport exception are failures alike.
C3_RetryBound ==
  \A i \in Inst :
    /\ attempt[i] <= Tries
    /\ pc[i] = "fetch" =>
         attempt[i] < Tries /\ (attempt[i] > 0 => outcome[i] \in {"status", "transport"})
    /\ pc[i] = "extract" =>
         outcome[i] = "ok" /\ attempt[i] \in 1..Tries /\ Len(response[i]) = 1
    /\ err[i] = "fetch" =>
         attempt[i] = Tries /\ outcome[i] \in {"status", "transport"}
    /\ (attempt[i] = Tries /\ outcome[i] \in {"status", "transport"}) =>
         err[i] = "fetch" /\ pc[i] = "aborted"

\* C3 witness: two failed attempts, then the third returns its response.
C3_Witness ==
  \E i \in Inst : pc[i] = "extract" /\ attempt[i] = Tries /\ outcome[i] = "ok"

\* Number of the payloads of a list that lack the identifier.
MalformedIn(ps) == Cardinality({k \in 1..Len(ps) : ~HasId(ps[k])})

\* C4: Malformed payload isolation. When processing of a page with exactly
\* one payload lacking the identifier is over, the run has not aborted and
\* every other payload of the page is in the table.
C4_MalformedIsolation ==
  \A i \in Inst :
    (PageOver(i) /\ MalformedIn(products[i]) = 1) =>
      /\ pc[i] # "aborted"
      /\ \A k \in 1..Len(products[i]) :
           HasId(products[i][k]) => exists(store, products[i][k].id)

\* The rendered page has no is_script element, or its text is not JSON.
ExtractionFails(body) == ~(body.script /\ body.valid)

\* C5: Extraction errors are non-fatal. A rendered page without the script
\* element, or with a script body that is not JSON, never makes an exception
\* leave start(): the run is not aborted on such a page.
C5_ExtractionNonFatal ==
  \A i \in Inst :
    (strategy[i] = "html" /\ Len(response[i]) = 1 /\ ExtractionFails(response[i][1])) =>
      pc[i] # "aborted" /\ err[i] = "none"

\* C6: Store uniqueness under concurrency. Whatever the interleaving of the
\* two instances' exists and insert steps, the table never holds two rows of
\* one product_id.
C6_StoreUnique == \A p \in PIDs : Count(store, p) <= 1

\* C6 witness: both instances passed the existence check for one product_id,
\* one inserted its row and the insert of the other was rejected.
C6_Witness ==
  \E i, j \in Inst :
    /\ i # j /\ err[i] = "persist"
    /\ Count(store, details[i][1].product_id) = 1
    /\ pc[j] \in {"for", "done"}

\* C7: Single-page mode. Without pagination a run of a fresh instance calls
\* start at most once, with page number 1, never calls it a second time,
\* leaves the page counter at 1, and has called start exactly once when it ends.
C7_SinglePage ==
  \A i \in Inst :
    ~ENABLE_PAGINATION[i] =>
      /\ PAGE[i] = 1
      /\ Len(fetched[i]) <= 1
      /\ \A k \in 1..Len(fetched[i]) : fetched[i][k] = 1
      /\ (pc[i] = "fetch" /\ attempt[i] = 0) => fetched[i] = <<>>
      /\ Ended(i) => fetched[i] = <<1>>

\* C7 witness: a single-page run of the API scraper completed after one page.
C7_Witness ==
  \E i \in Inst :
    /\ ~ENABLE_PAGINATION[i] /\ strategy[i] = "api"
    /\ pc[i] = "done" /\ fetched[i] = <<1>> /\ PAGE[i] = 1

\* C8: No early exit on an empty page. In a paginated run, when start returns
\* from a page that yielded zero payloads, the counter advances by one and the
\* next page is fetched, unless the page was the last one, MAX_PAGES.
C8_NoEarlyExit ==
  [][\A i \in Inst :
       (ENABLE_PAGINATION[i] /\ pc[i] = "for" /\ products[i] = <<>> /\ pc'[i] # "for") =>
         /\ PAGE'[i] = PAGE[i] + 1
         /\ PAGE[i] < MAX_PAGES => (pc'[i] = "fetch" /\ attempt'[i] = 0)
         /\ PAGE[i] >= MAX_PAGES => pc'[i] = "done"
         /\ err'[i] = "none"]_vars

\* C8 witness: after a page that yielded zero payloads and left the table
\* empty, the run stands at the fetch of the next page.
C8_Witness ==
  \E i \in Inst :
    /\ ENABLE_PAGINATION[i] /\ pc[i] = "fetch" /\ attempt[i] = 0
    /\ PAGE[i] = 2 /\ fetched[i] = <<1>> /\ store = <<>>

\* C9: Fatal fetch propagation. Once the fetch of page k has used up its
\* attempts, the run is aborted with the counter at k, no page above k was or
\* is fetched, and from then on neither the table nor the counter changes.
C9_FatalFetch ==
  [][\A i \in Inst :
       /\ err'[i] = "fetch" =>
            /\ pc'[i] = "aborted"
            /\ fetched'[i] # <<>>
            /\ \A k \in 1..Len(fetched'[i]) : fetched'[i][k] <= PAGE'[i]
            /\ fetched'[i][Len(fetched'[i])] = PAGE'[i]
            /\ products'[i] = <<>> /\ details'[i] = <<>>
       /\ err[i] = "fetch" =>
            (store' = store /\ fetched'[i] = fetched[i] /\ PAGE'[i] = PAGE[i])]_vars

\* C9 witness: a paginated run aborted by the fetch of page 2, after the
\* fetch, extraction and persistence of page 1 went through.
C9_Witness ==
  \E i \in Inst :
    /\ ENABLE_PAGINATION[i] /\ pc[i] = "aborted" /\ err[i] = "fetch"
    /\ PAGE[i] = 2 /\ fetched[i] = <<1, 2>>

\* C10: The existence check and the insert are separate steps. An instance
\* stands at the insert only after its own check answered "absent", and that
\* answer is not refreshed: nothing keeps the other instance from standing at
\* the insert of the same product_id at the same time.
C10_InsertAfterAbsent ==
  \A i \in Inst :
    /\ pc[i] = "insert" => (~found[i] /\ Len(details[i]) = 1)
    /\ pc[i] = "skip" => (found[i] /\ exists(store, details[i][1].product_id))

\* C10 witness: both instances saw the product_id absent and both stand at the
\* insert of it, while the table still has no row of it.
C10_Race ==
  /\ pc["a"] = "insert" /\ pc["b"] = "insert"
  /\ details["a"][1].product_id = details["b"][1].product_id
  /\ ~found["a"] /\ ~found["b"]
  /\ ~exists(store, details["a"][1].product_id)

\* C11: Repeat sighting is a no-op on the store. When save_to_db finds the
\* product_id present it takes the skip branch, and neither the check nor the
\* branch changes the table: the stored row keeps every field, also when the
\* incoming record differs from it.
C11_RepeatNoOp ==
  [][\A i \in Inst :
       /\ (pc[i] = "exists" /\ exists(store, details[i][1].product_id)) =>
            (pc'[i] = "skip" /\ store' = store)
       /\ pc[i] = "skip" => store' = store]_vars

\* C11 witness: the skip branch is taken for a record whose product_id is in
\* the table with another url than the incoming one.
C11_Witness ==
  \E i \in Inst :
    /\ pc[i] = "skip"
    /\ \E k \in 1..Len(store) :
         /\ store[k].product_id = details[i][1].product_id
         /\ store[k] # details[i][1]

\* C12: Sequential pages. The counter moves on only when start() has returned
\* with every product of the page processed; a fetch is made only with no
\* product list and no record in progress; and the products being persisted
\* are those of the page fetched last, which is the page the counter shows.
C12_SequentialPages ==
  [][\A i \in Inst :
       /\ PAGE'[i] # PAGE[i] =>
            /\ pc[i] = "for" /\ idx[i] > Len(products[i]) /\ details[i] = <<>>
            /\ PAGE'[i] = PAGE[i] + 1
       /\ pc'[i] \in {"fetch", "extract"} =>
            (products'[i] = <<>> /\ details'[i] = <<>> /\ idx'[i] = 0)
       /\ pc'[i] \in {"for", "exists", "insert", "skip"} =>
            /\ response'[i] = <<>>
            /\ fetched'[i] # <<>>
            /\ fetched'[i][Len(fetched'[i])] = PAGE'[i]]_vars

\* C12 witness: a product of page 2 stands at its insert, after pages 1 and 2
\* were fetched in that order.
C12_Witness ==
  \E i \in Inst :
    pc[i] = "insert" /\ PAGE[i] = 2 /\ fetched[i] = <<1, 2>> /\ idx[i] = 2

\* C13: A persistence failure is per-record. When the exists or insert step
\* of one record has failed, the run is not aborted, and a run that ended
\* after such a failure has gone through every product of its page.
C13_PersistPerRecord ==
  \A i \in Inst :
    err[i] = "persist" =>
      /\ pc[i] # "aborted"
      /\ Ended(i) => idx[i] > Len(products[i])

\* C14: Termination. Every run that has started ends, done or aborted; a
\* paginated run is done exactly with the counter at MAX_PAGES + 1 and a
\* single-page run after its one iteration; a run calls get_response at most
\* MAX_PAGES times and each call makes at most Tries attempts, so a run makes
\* at most Tries * MAX_PAGES fetch attempts.
C14_Termination ==
  /\ \A i \in Inst : (pc[i] \in {"idle", "fetch"}) ~> Ended(i)
  /\ [](\A i \in Inst :
          /\ (pc[i] = "done" /\ ENABLE_PAGINATION[i]) => PAGE[i] = MAX_PAGES + 1
          /\ (pc[i] = "done" /\ ~ENABLE_PAGINATION[i]) => Len(fetched[i]) = 1
          /\ (pc[i] # "none" /\ PAGE[i] = MAX_PAGES + 1) => pc[i] = "done"
          /\ Len(fetched[i]) <= MAX_PAGES
          /\ attempt[i] <= Tries
          /\ Tries * Len(fetched[i]) <= Tries * MAX_PAGES)

\* C14 witness: a paginated run is done after fetching every page, the
\* counter one beyond MAX_PAGES.
C14_Witness ==
  \E i \in Inst :
    /\ pc[i] = "done" /\ ENABLE_PAGINATION[i]
    /\ PAGE[i] = MAX_PAGES + 1 /\ Len(fetched[i]) = MAX_PAGES

\* C15: No rollback across records. No step, an aborting one included, removes
\* or alters a row of the table: the table before the step is a prefix of the
\* table after it. When a run aborts while processing a page, every product of
\* that page processed before the abort has its row in the table.
C15_NoRollback ==
  [][/\ Len(store') >= Len(store)
     /\ \A k \in 1..Len(store) : store'[k] = store[k]
     /\ \A i \in Inst :
          (pc'[i] = "aborted" /\ pc[i] # "aborted") =>
            /\ store' = store
            /\ \A j \in 1..(idx[i] - 1) : exists(store', products[i][j].id)]_vars

\* C15 witness: the run aborted by fetch exhaustion on page 2, and the two
\* rows inserted on page 1 are in the table.
C15_Witness ==
  \E i \in Inst :
    /\ pc[i] = "aborted" /\ err[i] = "fetch" /\ PAGE[i] = 2
    /\ Len(store) = 2

\* C16: Fetching mutates no local state. An attempt of get_response leaves the
\* page counter and the table as they are and carries the page number of the
\* counter, the same as the attempt before it of the same call; the counter
\* changes only in the driver loop, by one, once the products of the page have
\* all been persisted.
C16_FetchFrame ==
  [][\A i \in Inst :
       /\ (pc[i] = "fetch" /\ attempt'[i] = attempt[i] + 1) =>
            /\ PAGE' = PAGE /\ store' = store
            /\ products'[i] = products[i] /\ idx'[i] = idx[i]
            /\ sent'[i] = PAGE[i]
            /\ attempt[i] > 0 => sent'[i] = sent[i]
       /\ PAGE'[i] # PAGE[i] =>
            /\ pc[i] = "for" /\ idx[i] > Len(products[i])
            /\ ENABLE_PAGINATION[i] /\ PAGE'[i] = PAGE[i] + 1]_vars

\* C16 witness: the third attempt of the fetch of page 2 is about to be made,
\* the two before it having carried page number 2.
C16_Witness ==
  \E i \in Inst :
    pc[i] = "fetch" /\ PAGE[i] = 2 /\ attempt[i] = 2 /\ sent[i] = 2

\* C17: Credentials are acquired once. A constructed API scraper has made
\* exactly one call of get_cookies and one of get_headers, at construction,
\* at every point of its run, whatever the pages fetched and attempts made; a
\* scraper of the rendered page makes none.
C17_CredentialsOnce ==
  \A i \in Inst :
    /\ (pc[i] # "none" /\ strategy[i] = "api") =>
         (creds[i].cookies = 1 /\ creds[i].headers = 1)
    /\ (pc[i] = "none" \/ strategy[i] = "html") =>
         (creds[i].cookies = 0 /\ creds[i].headers = 0)

\* C17 witness: an API scraper got the response of page 2 at the third
\* attempt, after at least four requests, with one call of each lookup made.
C17_Witness ==
  \E i \in Inst :
    /\ strategy[i] = "api" /\ pc[i] = "extract"
    /\ PAGE[i] = 2 /\ attempt[i] = Tries
    /\ creds[i] = [cookies |-> 1, headers |-> 1]

\* The payload list out holds, in the order of the slot list f, the first
\* product of every slot of f that is a WIDGET of type PRODUCT_SUMMARY, and
\* nothing else.
IsSelection(f, out) ==
  LET Q == {k \in 1..Len(f) :
              f[k].slotType = "WIDGET" /\ f[k].wtype = "PRODUCT_SUMMARY"}
  IN /\ Len(out) = Cardinality(Q)
     /\ \A k \in Q : out[Cardinality({m \in Q : m <= k})] = f[k].value

\* C18: Extraction selects exactly the qualifying slots. The list get_products
\* returns is the selection of the qualifying slots of the response, in
\* traversal order; on a rendered page it equals what the API extractor
\* returns on the concatenation of the value-lists, and on an API response
\* what the page extractor returns on every document cut from the slot list.
C18_ExtractSelects ==
  [][\A i \in Inst :
       (pc[i] = "extract" /\ pc'[i] = "for") =>
         LET body == response[i][1]
             f == IF strategy[i] = "html" THEN Flatten(body.data) ELSE body.slots
         IN /\ IsSelection(f, products'[i])
            /\ strategy[i] = "html" => products'[i] = get_products_api([slots |-> f])
            /\ strategy[i] = "api" =>
                 \A k \in 1..MaxKeys : \A d \in Splits(f, k) :
                   get_products_html(d) = products'[i]]_vars

\* C18 witness: a rendered page of two value-lists with one qualifying slot
\* and one slot that is not a product summary widget; the extractor yields
\* the one payload of the qualifying slot.
C18_Witness ==
  \E i \in Inst :
    /\ strategy[i] = "html" /\ pc[i] = "extract"
    /\ response[i][1].script /\ response[i][1].valid
    /\ LET d == response[i][1].data
       IN /\ Len(d) = 2 /\ Len(d[1]) = 1 /\ Len(d[2]) = 1
          /\ ~Qualifies(d[1][1]) /\ Qualifies(d[2][1])
          /\ get_products_html(d) = <<d[2][1].value>>

\* C19: The page counter is never reset. It never decreases; a paginated run
\* is done with the counter at MAX_PAGES + 1, and run() called again on that
\* instance is done at once without a fetch; a run aborted by a fetch failure
\* leaves the counter at the failed page, and run() called again starts with
\* that page; the pages a run fetches are consecutive from the counter it
\* found.
C19_PageNeverReset ==
  [][\A i \in Inst :
       /\ PAGE'[i] >= PAGE[i]
       /\ (pc[i] = "done" /\ ENABLE_PAGINATION[i]) =>
            /\ PAGE[i] = MAX_PAGES + 1
            /\ pc'[i] = "done" /\ fetched'[i] = <<>> /\ PAGE'[i] = PAGE[i]
       /\ (pc[i] = "aborted" /\ err[i] = "fetch") =>
            /\ fetched[i][Len(fetched[i])] = PAGE[i]
            /\ pc'[i] # "aborted" =>
                 (pc'[i] = "fetch" /\ fetched'[i] = <<>> /\ PAGE'[i] = PAGE[i])
       /\ (pc[i] = "fetch" /\ fetched[i] = <<>>) => fetched'[i] = <<PAGE[i]>>
       /\ \A k \in 1..Len(fetched'[i]) : fetched'[i][k] = fetched'[i][1] + k - 1]_vars

\* C19 witness: a run that began with the counter at 2, left there by an
\* earlier run of the instance, has fetched page 2 and then page 3.
C19_Witness ==
  \E i \in Inst :
    ENABLE_PAGINATION[i] /\ fetched[i] = <<2, 3>> /\ PAGE[i] = 3

====
